---- MODULE Spec2Model ----
(***************************************************************************)
(* Host side of the SGX WebAuthn authenticator: App/App.cpp (enclave       *)
(* lifecycle, launch token, OCALL handlers, hex codec, main) and           *)
(* App/Enclave_u.c (the ECALL wrappers).                                   *)
(***************************************************************************)
EXTENDS Integers, Sequences, FiniteSets, TLC

(* ---------------- bounds (scaled-down sizes) ---------------- *)
\* sizeof(sgx_launch_token_t), scaled down
TokenSize == 2
\* bytes are 0..MaxByte
MaxByte == 1
\* number of characters waiting on stdin at start
MaxStdin == 3
\* char client_data_json[client_data_json_size], scaled down
client_data_json_size == 4
\* char data_to_sign[data_to_sign_size], scaled down
data_to_sign_size == 4
\* longest indeterminate string found in an uninitialized buffer
MaxGarbage == 2
\* largest sealed blob / sealed-state file
MaxSeal == 2
\* largest buffer handed to untrusted_get_user_input
MaxN == 3

Byte == 0..MaxByte
LF == "\n"
\* the characters stdin delivers: a hex digit and the newline
Char == {"a", LF}

Min(a, b) == IF a < b THEN a ELSE b

\* all sequences over S of length at most n
SeqUpTo(S, n) == UNION {[1..k -> S] : k \in 0..n}

Zeros(n) == [i \in 1..n |-> 0]

Take(s, n) == SubSeq(s, 1, Min(n, Len(s)))
Drop(s, n) == SubSeq(s, Min(n, Len(s)) + 1, Len(s))

(* ---------------- sgx_status_t ---------------- *)
SGX_SUCCESS == "SGX_SUCCESS"
SgxStatus == {SGX_SUCCESS, "SGX_ERROR_UNEXPECTED", "SGX_ERROR_ENCLAVE_LOST"}

VARIABLES
  \* ---- main ----
  pc,               \* position of main
  enclave,          \* "Unloaded" | "Loaded" | "Destroyed"
  global_eid,       \* the shared handle, 0 = unset
  stdin,            \* characters not yet consumed
  status,           \* main's local sgx_status_t
  statusSet,        \* FALSE while `status` holds an indeterminate value
  pkSet,            \* pk was written by the enclave
  sigSet,           \* signature was written by the enclave
  client_data_json, \* C string in the buffer
  data_to_sign,     \* C string in the buffer
  hexRead,          \* "no" before the hex line is read, then "line" or "eof"
  nbytes_to_sign,
  bytes_to_sign,
  ecallLog,         \* one record per sgx_ecall issued
  staleRead,        \* main read status/pk/signature after a failed sgx_ecall
  destroyCount,     \* calls of sgx_destroy_enclave
  exitCode,         \* value returned by main, read when pc = "exit"
  \* ---- initialize_enclave ----
  tokenFile,        \* the launch-token file
  tokenFile0,       \* the launch-token file when initialize_enclave was entered
  createToken,      \* token handed to sgx_create_enclave
  createRet,        \* status returned by sgx_create_enclave, "none" before
  createUpdated,    \* `updated` as reported by sgx_create_enclave
  writeNum,         \* write_num of the token save, -1 if no fwrite
  initRet,          \* return value of initialize_enclave, read when pc # "start"
  log,              \* diagnostics printed
  \* ---- fgets_nonewline ----
  fg,               \* record of the last fgets_nonewline call
  \* ---- sealed state OCALLs ----
  sealFile,         \* the file enclave_data.seal
  sealBuf,          \* the caller's buffer behind sealed_data
  sealHist,         \* the last two sealed-state calls
  ret_str,          \* C string left in the buffer of untrusted_get_user_input
  \* ---- ECALL wrappers ----
  retvalSlot, wrapCall

mainVars == <<pc, enclave, global_eid, stdin, status, statusSet, pkSet, sigSet,
              client_data_json, data_to_sign, hexRead, nbytes_to_sign,
              bytes_to_sign, ecallLog, staleRead, destroyCount, exitCode>>
tokVars == <<tokenFile, tokenFile0, createToken, createRet, createUpdated,
             writeNum, initRet, log>>
sealVars == <<sealFile, sealBuf, sealHist, ret_str>>
wrapVars == <<retvalSlot, wrapCall>>
vars == <<mainVars, tokVars, fg, sealVars, wrapVars>>

(* ======================================================================= *)
(* Files                                                                   *)
(* ======================================================================= *)
\* a file: exists, may be opened for reading (r), may be opened or created
\* for writing (w), and its bytes
File(e, r, w, b) == [exists |-> e, r |-> r, w |-> w, bytes |-> b]

Files(maxLen) ==
  {File(TRUE, r, w, b) : r \in BOOLEAN, w \in BOOLEAN, b \in SeqUpTo(Byte, maxLen)}
  \cup {File(FALSE, FALSE, w, <<>>) : w \in BOOLEAN}

\* fopen(path, "rb") / ifstream(path, in)
CanOpenRead(f) == f.exists /\ f.r
\* fopen(path, "wb") / freopen(path, "wb", fp) / ofstream(path, out)
CanOpenWrite(f) == f.w
\* the file after a successful open for writing: created or truncated
OpenedForWrite(f) ==
  IF f.exists THEN [f EXCEPT !.bytes = <<>>] ELSE File(TRUE, TRUE, TRUE, <<>>)

(* ======================================================================= *)
(* initialize_enclave                                                      *)
(* ======================================================================= *)
Tokens == [1..TokenSize -> Byte]

\* Step 1, the two fopen calls: "rb" first, "wb" when that fails
OpenTokenFile(f) ==
  IF CanOpenRead(f) THEN [open |-> TRUE, mode |-> "rb", file |-> f]
  ELSE IF CanOpenWrite(f)
       THEN [open |-> TRUE, mode |-> "wb", file |-> OpenedForWrite(f)]
       ELSE [open |-> FALSE, mode |-> "", file |-> f]

\* fread(token, 1, sizeof(sgx_launch_token_t), fp): a stream opened "wb"
\* delivers nothing
FreadToken(o) ==
  IF o.open /\ o.mode = "rb" THEN Take(o.file.bytes, TokenSize) ELSE <<>>

\* the token buffer after the fread: the bytes read over the {0} initializer
TokenAfterRead(got) ==
  [i \in 1..TokenSize |-> IF i <= Len(got) THEN got[i] ELSE 0]

TokenInvalid_NoClear(read_num) == FALSE

\* if (read_num != 0 && read_num != sizeof(sgx_launch_token_t))
TokenInvalid(read_num) == read_num # 0 /\ read_num # TokenSize

\* Step 1 as a whole: the token handed to sgx_create_enclave and the warnings
LoadToken(f) ==
  LET o   == OpenTokenFile(f)
      got == FreadToken(o)
      bad == o.open /\ TokenInvalid(Len(got))
  IN [open  |-> o.open,
      file  |-> o.file,
      token |-> IF bad THEN Zeros(TokenSize) ELSE TokenAfterRead(got),
      warn  |-> (IF o.open THEN {} ELSE {"Warning: Failed to create/open the launch token file"})
                \cup (IF bad THEN {"Warning: Invalid launch token read"} ELSE {})]

SkipSave_Always(updated, fpOpen) == ~fpOpen

\* if (updated == FALSE || fp == NULL)
SkipSave(updated, fpOpen) == updated = FALSE \/ ~fpOpen

\* sgx_create_enclave failed: print_error_message, fclose, return -1
InitCreateFailed(l, ret) ==
  /\ tokenFile' = l.file
  /\ log' = log \cup l.warn \cup {"Error: sgx_create_enclave"}
  /\ initRet' = -1
  /\ writeNum' = -1
  /\ UNCHANGED <<enclave, global_eid>>

\* Step 3: save the launch token if it is updated
InitCreated(l, updated, tok) ==
  /\ enclave' = "Loaded"
  /\ global_eid' = 1
  /\ initRet' = 0
  /\ IF SkipSave(updated, l.open) \/ ~CanOpenWrite(l.file)
     THEN \* not updated, no stream, or freopen(token_path, "wb", fp) failed
          /\ tokenFile' = l.file
          /\ writeNum' = -1
          /\ log' = log \cup l.warn
     ELSE \E write_num \in 0..TokenSize :
          /\ tokenFile' = [OpenedForWrite(l.file) EXCEPT !.bytes = Take(tok, write_num)]
          /\ writeNum' = write_num
          /\ log' = log \cup l.warn \cup
                    (IF write_num # TokenSize
                     THEN {"Warning: Failed to save launch token"} ELSE {})

initialize_enclave ==
  /\ pc = "start"
  /\ LET l == LoadToken(tokenFile) IN
     /\ tokenFile0' = tokenFile
     /\ createToken' = l.token
     /\ \E ret \in SgxStatus, updated \in BOOLEAN, newTok \in Tokens :
        /\ createRet' = ret
        /\ createUpdated' = updated
        /\ IF ret # SGX_SUCCESS
           THEN InitCreateFailed(l, ret)
           ELSE InitCreated(l, updated, IF updated THEN newTok ELSE l.token)
  /\ pc' = "init_ret"
  /\ UNCHANGED <<stdin, status, statusSet, pkSet, sigSet, client_data_json,
                 data_to_sign, hexRead, nbytes_to_sign, bytes_to_sign, ecallLog,
                 staleRead, destroyCount, exitCode>>
  /\ UNCHANGED <<fg, sealVars, wrapVars>>

(* ======================================================================= *)
(* fgets_nonewline                                                         *)
(* ======================================================================= *)
\* a uint32_t as <<high half, low half>>, each 16 bits wide
U32(x) == <<(x \div 65536) % 65536, x % 65536>>

\* x - 1 in unsigned 32-bit arithmetic
U32Dec(u) ==
  IF u[2] > 0 THEN <<u[1], u[2] - 1>>
  ELSE IF u[1] > 0 THEN <<u[1] - 1, 65535>>
  ELSE <<65535, 65535>>

\* u < n for a small natural n
U32Below(u, n) == u[1] = 0 /\ u[2] < n

\* position of the first LF among the first k characters of s, 0 if none
RECURSIVE FirstLF(_, _, _)
FirstLF(s, i, k) ==
  IF i > k THEN 0 ELSE IF s[i] = LF THEN i ELSE FirstLF(s, i + 1, k)

\* number of characters fgets(str, n, stream) consumes: at most n - 1, up to
\* and including the first newline
FgetsCount(stream, n) ==
  LET k == Min(n - 1, Len(stream))
      p == FirstLF(stream, 1, k)
  IN IF p > 0 THEN p ELSE k

\* fgets(str, n, stream); old is the C string the buffer held before.
\* With n = 1 nothing is read and the buffer becomes ""; at end of file with
\* nothing read the buffer is left as it was.
Fgets(old, n, stream) ==
  LET c == FgetsCount(stream, n)
  IN IF n = 1 THEN [str |-> <<>>, rest |-> stream, eof |-> FALSE]
     ELSE IF c = 0 THEN [str |-> old, rest |-> stream, eof |-> TRUE]
     ELSE [str |-> Take(stream, c), rest |-> Drop(stream, c), eof |-> FALSE]

\* const uint32_t str_len = strlen(str) - 1;
StrLenIndex(str) == U32Dec(U32(Len(str)))

\* if (str[str_len] == '\n') str[str_len] = '\0';   for an index inside str
Trim(str, idx) ==
  IF str[idx[2] + 1] = LF THEN SubSeq(str, 1, idx[2]) ELSE str

\* what reading str[str_len] outside the buffer can do
OutOfBounds == {"SIGSEGV", "read other byte", "read LF, wrote 0 outside"}

NoCall == [called |-> FALSE, n |-> 0, len |-> 0, idx |-> U32(0),
           inside |-> TRUE, outcome |-> "", eof |-> FALSE]

\* fgets_nonewline(str, n, stream) as a whole: r is the record of the call,
\* str the C string left in the buffer, rest the stream after the call
FgetsNonewline(old, n, stream, outcome) ==
  LET f      == Fgets(old, n, stream)
      idx    == StrLenIndex(f.str)
      inside == U32Below(idx, n)
  IN [str  |-> IF inside THEN Trim(f.str, idx) ELSE f.str,
      rest |-> f.rest,
      r    |-> [called |-> TRUE, n |-> n, len |-> Len(f.str), idx |-> idx,
                inside |-> inside, outcome |-> IF inside THEN "ok" ELSE outcome,
                eof |-> f.eof]]

\* the strings an uninitialized char buffer may hold
Garbage == SeqUpTo(Char \ {LF}, MaxGarbage)

(* ======================================================================= *)
(* hex2buf                                                                 *)
(* ======================================================================= *)
HexVal(c) == CASE c = "1" -> 1 [] c = "a" -> 10 [] OTHER -> -1

\* sscanf(pos, "%2hhx", *ret + count); -1 stands for a byte left unwritten
HexByte(hi, lo) ==
  IF HexVal(hi) = -1 THEN -1
  ELSE IF HexVal(lo) = -1 THEN HexVal(hi)
  ELSE 16 * HexVal(hi) + HexVal(lo)

\* if (nchars_to_sign % 2)
OddLength(nchars) == nchars % 2 # 0

hex2buf(s) ==
  IF OddLength(Len(s)) THEN [size |-> 0, bytes |-> <<>>, alloc |-> FALSE]
  ELSE LET ret_size == Len(s) \div 2
       IN [size  |-> ret_size,
           bytes |-> [i \in 1..ret_size |-> HexByte(s[2 * i - 1], s[2 * i])],
           alloc |-> TRUE]

(* ======================================================================= *)
(* ECALL wrappers (Enclave_u.c)                                            *)
(* ======================================================================= *)
WrapperWrites_Unchecked(s, retvalPtr) == retvalPtr

\* if (status == SGX_SUCCESS && retval) *retval = ms.ms_retval;
WrapperWrites(s, retvalPtr) == s = SGX_SUCCESS /\ retvalPtr

\* a wrapper as a whole: s is what sgx_ecall returned, ms_retval the block's
\* return-value field, old the caller's variable behind retval
ECallWrapper(s, retvalPtr, ms_retval, old) ==
  [ret    |-> s,
   wrote  |-> WrapperWrites(s, retvalPtr),
   retval |-> IF WrapperWrites(s, retvalPtr) THEN ms_retval ELSE old]

(* ======================================================================= *)
(* main                                                                    *)
(* ======================================================================= *)
tokUnch == UNCHANGED tokVars
otherUnch == UNCHANGED <<sealVars, wrapVars>>

InitFailed_Ignored(ret) == FALSE

\* if (initialize_enclave() < 0)
InitFailed(ret) == ret < 0

Exit(code) == pc' = "exit" /\ exitCode' = code

\* lines 318-328: the check of initialize_enclave's result; on success the
\* locals status, pk are declared and hold indeterminate values
main_check_init ==
  /\ pc = "init_ret"
  /\ IF InitFailed(initRet)
     THEN /\ Exit(-1)
          /\ stdin' = Drop(stdin, 1)      \* getchar()
          /\ UNCHANGED status
     ELSE /\ pc' = "call_pk"
          /\ \E v \in SgxStatus : status' = v
          /\ UNCHANGED <<stdin, exitCode>>
  /\ UNCHANGED <<enclave, global_eid, statusSet, pkSet, sigSet, client_data_json,
                 data_to_sign, hexRead, nbytes_to_sign, bytes_to_sign, ecallLog,
                 staleRead, destroyCount, fg>>
  /\ tokUnch /\ otherUnch

\* sgx_ecall(eid, index, ...) through a wrapper called with &status: s is the
\* platform status, rv the block's return-value field (set by the enclave
\* on success, indeterminate otherwise)
MainECall(index, s, rv) ==
  LET w == ECallWrapper(s, TRUE, rv, status)
  IN /\ ecallLog' = Append(ecallLog, [index |-> index, enclave |-> enclave,
                                      eid |-> global_eid, status |-> s,
                                      retval |-> IF s = SGX_SUCCESS THEN rv ELSE "none"])
     /\ status' = w.retval
     /\ statusSet' = (statusSet \/ w.wrote)

\* line 329: get_public_key(global_eid, &status, &pk); the result is dropped
main_get_public_key ==
  /\ pc = "call_pk"
  /\ \E s \in SgxStatus, rv \in SgxStatus :
       /\ MainECall(0, s, rv)
       /\ pkSet' = (s = SGX_SUCCESS /\ rv = SGX_SUCCESS)
  /\ pc' = "check_pk"
  /\ UNCHANGED <<enclave, global_eid, stdin, sigSet, client_data_json,
                 data_to_sign, hexRead, nbytes_to_sign, bytes_to_sign,
                 staleRead, destroyCount, exitCode, fg>>
  /\ tokUnch /\ otherUnch

LastECallFailed == ecallLog[Len(ecallLog)].status # SGX_SUCCESS

\* lines 331-355: if (status) return -1; else the public key is printed
main_check_pk ==
  /\ pc = "check_pk"
  /\ staleRead' = (staleRead \/ LastECallFailed)
  /\ IF status # SGX_SUCCESS
     THEN /\ Exit(-1)
          /\ log' = log \cup {"App Error"}
     ELSE /\ pc' = "read_json"
          /\ log' = log \cup {"Public Key"}
          /\ UNCHANGED exitCode
  /\ UNCHANGED <<enclave, global_eid, stdin, status, statusSet, pkSet, sigSet,
                 client_data_json, data_to_sign, hexRead, nbytes_to_sign,
                 bytes_to_sign, ecallLog, destroyCount, fg>>
  /\ UNCHANGED <<tokenFile, tokenFile0, createToken, createRet, createUpdated,
                 writeNum, initRet>>
  /\ otherUnch

\* after fgets_nonewline: a SIGSEGV ends the process, otherwise main goes on
AfterRead(r, next) ==
  IF r.outcome = "SIGSEGV"
  THEN pc' = "crash"
  ELSE pc' = next

\* lines 359-364: fgets_nonewline(client_data_json, client_data_json_size, stdin)
main_read_client_json ==
  /\ pc = "read_json"
  /\ \E old \in Garbage, outcome \in OutOfBounds :
       LET f == FgetsNonewline(old, client_data_json_size, stdin, outcome)
       IN /\ client_data_json' = f.str
          /\ stdin' = f.rest
          /\ fg' = f.r
          /\ AfterRead(f.r, "read_hex")
  /\ UNCHANGED <<enclave, global_eid, status, statusSet, pkSet, sigSet,
                 data_to_sign, hexRead, nbytes_to_sign, bytes_to_sign, ecallLog,
                 staleRead, destroyCount, exitCode>>
  /\ tokUnch /\ otherUnch

\* lines 367-372: fgets_nonewline(data_to_sign, data_to_sign_size, stdin)
main_read_hex ==
  /\ pc = "read_hex"
  /\ \E old \in Garbage, outcome \in OutOfBounds :
       LET f == FgetsNonewline(old, data_to_sign_size, stdin, outcome)
       IN /\ data_to_sign' = f.str
          /\ stdin' = f.rest
          /\ fg' = f.r
          /\ hexRead' = IF f.r.eof THEN "eof" ELSE "line"
          /\ AfterRead(f.r, "decode")
  /\ UNCHANGED <<enclave, global_eid, status, statusSet, pkSet, sigSet,
                 client_data_json, nbytes_to_sign, bytes_to_sign, ecallLog,
                 staleRead, destroyCount, exitCode>>
  /\ tokUnch /\ otherUnch

\* lines 375-382: hex2buf and the check of its result
main_decode ==
  /\ pc = "decode"
  /\ LET h == hex2buf(data_to_sign)
     IN /\ nbytes_to_sign' = h.size
        /\ bytes_to_sign' = h.bytes
        /\ IF h.size = 0
           THEN /\ Exit(-1)
                /\ log' = log \cup {"Error receiving data to sign"}
           ELSE /\ pc' = "call_sign"
                /\ UNCHANGED <<exitCode, log>>
  /\ UNCHANGED <<enclave, global_eid, stdin, status, statusSet, pkSet, sigSet,
                 client_data_json, data_to_sign, hexRead, ecallLog, staleRead,
                 destroyCount, fg>>
  /\ UNCHANGED <<tokenFile, tokenFile0, createToken, createRet, createUpdated,
                 writeNum, initRet>>
  /\ otherUnch

\* lines 384-391: webauthn_get_signature(global_eid, &status, ...); the
\* result is dropped; free(bytes_to_sign). The wrapper is generated like
\* the two of Enclave_u.c and enters the enclave at the signing index.
main_sign ==
  /\ pc = "call_sign"
  /\ \E s \in SgxStatus, rv \in SgxStatus :
       /\ MainECall(1, s, rv)
       /\ sigSet' = (s = SGX_SUCCESS /\ rv = SGX_SUCCESS)
  /\ pc' = "check_sign"
  /\ UNCHANGED <<enclave, global_eid, stdin, pkSet, client_data_json,
                 data_to_sign, hexRead, nbytes_to_sign, bytes_to_sign,
                 staleRead, destroyCount, exitCode, fg>>
  /\ tokUnch /\ otherUnch

\* lines 394-419: if (status) return -1; else the signature is printed, the
\* enclave destroyed and main returns 0
main_check_sign ==
  /\ pc = "check_sign"
  /\ staleRead' = (staleRead \/ LastECallFailed)
  /\ IF status # SGX_SUCCESS
     THEN /\ Exit(-1)
          /\ log' = log \cup {"Signature Error"}
          /\ UNCHANGED <<enclave, destroyCount>>
     ELSE /\ log' = log \cup {"Resulting signature"}
          /\ enclave' = "Destroyed"       \* sgx_destroy_enclave(global_eid)
          /\ destroyCount' = destroyCount + 1
          /\ Exit(0)
  /\ UNCHANGED <<global_eid, stdin, status, statusSet, pkSet, sigSet,
                 client_data_json, data_to_sign, hexRead, nbytes_to_sign,
                 bytes_to_sign, ecallLog, fg>>
  /\ UNCHANGED <<tokenFile, tokenFile0, createToken, createRet, createUpdated,
                 writeNum, initRet>>
  /\ otherUnch

\* stdin at start: lines of characters, the last one possibly unterminated
Stdins == SeqUpTo(Char, MaxStdin)

MainIdle ==
  /\ enclave = "Unloaded" /\ global_eid = 0
  /\ status = SGX_SUCCESS /\ statusSet = FALSE /\ pkSet = FALSE /\ sigSet = FALSE
  /\ client_data_json = <<>> /\ data_to_sign = <<>> /\ hexRead = "no"
  /\ nbytes_to_sign = 0 /\ bytes_to_sign = <<>> /\ ecallLog = <<>>
  /\ staleRead = FALSE /\ destroyCount = 0 /\ exitCode = 0
  /\ createToken = <<>> /\ createRet = "none" /\ createUpdated = FALSE
  /\ writeNum = -1 /\ initRet = 0 /\ log = {}
  /\ fg = NoCall

SealIdle ==
  /\ sealFile = File(FALSE, FALSE, FALSE, <<>>) /\ sealBuf = <<>> /\ sealHist = <<>>
  /\ ret_str = <<>>
WrapIdle == retvalSlot = SGX_SUCCESS /\ wrapCall = <<>>

\* the launch-token file of a first run (absent) and of a later run (a token)
UsualTokenFiles ==
  {File(FALSE, FALSE, TRUE, <<>>)} \cup {File(TRUE, TRUE, TRUE, t) : t \in {Zeros(TokenSize)}}

\* a run of main
Init ==
  /\ MainIdle /\ pc = "start"
  /\ stdin \in Stdins
  /\ tokenFile \in UsualTokenFiles
  /\ tokenFile0 = tokenFile
  /\ SealIdle /\ WrapIdle

Next ==
  \/ initialize_enclave
  \/ main_check_init
  \/ main_get_public_key
  \/ main_check_pk
  \/ main_read_client_json
  \/ main_read_hex
  \/ main_decode
  \/ main_sign
  \/ main_check_sign

Spec == Init /\ [][Next]_vars

\* initialize_enclave and the check of its result, for every launch-token file
InitTok ==
  /\ MainIdle /\ pc = "start"
  /\ stdin \in SeqUpTo(Char, 1)
  /\ tokenFile \in Files(TokenSize + 1)
  /\ tokenFile0 = tokenFile
  /\ SealIdle /\ WrapIdle

NextTok == initialize_enclave \/ main_check_init

SpecTok == InitTok /\ [][NextTok]_vars

(* ======================================================================= *)
(* OCALL handlers: sealed state                                            *)
(* ======================================================================= *)
SealOp(op, n, ret, before, written) ==
  [op |-> op, n |-> n, ret |-> ret, before |-> before, written |-> written]

\* the last two calls
Remember(h, o) == IF Len(h) < 2 THEN Append(h, o) ELSE <<h[2], o>>

ReadInto_Nothing(buf, got) == buf

\* file.read((char*)sealed_data, sealed_size): the bytes the file delivers
\* land at the start of the buffer, the rest of the buffer is not touched
ReadInto(buf, got) ==
  [i \in 1..Len(buf) |-> IF i <= Len(got) THEN got[i] ELSE buf[i]]

untrusted_load_enclave_data(n) ==
  /\ pc = "in_ecall"
  /\ IF ~CanOpenRead(sealFile)
     THEN \* file.fail(): return 1
          /\ sealHist' = Remember(sealHist, SealOp("load", n, 1, sealFile.bytes, 0))
          /\ UNCHANGED sealBuf
     ELSE /\ sealBuf' = ReadInto(sealBuf, Take(sealFile.bytes, n))
          /\ sealHist' = Remember(sealHist, SealOp("load", n, 0, sealFile.bytes,
                                                   Min(n, Len(sealFile.bytes))))
  /\ UNCHANGED <<sealFile, ret_str, fg>>
  /\ UNCHANGED <<mainVars, tokVars, wrapVars>>

\* file.write((const char*)sealed_data, sealed_size) on the stream just
\* opened: written < n when the device runs full; the result is not checked
untrusted_save_enclave_data(n) ==
  /\ pc = "in_ecall"
  /\ IF ~CanOpenWrite(sealFile)
     THEN \* file.fail(): return 1
          /\ sealHist' = Remember(sealHist, SealOp("save", n, 1, sealFile.bytes, 0))
          /\ UNCHANGED sealFile
     ELSE \E written \in 0..n :
          /\ sealFile' = [OpenedForWrite(sealFile) EXCEPT !.bytes = Take(sealBuf, written)]
          /\ sealHist' = Remember(sealHist, SealOp("save", n, 0, sealFile.bytes, written))
  /\ UNCHANGED <<sealBuf, ret_str, fg>>
  /\ UNCHANGED <<mainVars, tokVars, wrapVars>>

\* the sealed-state handlers, called from inside an ECALL in any order
InitSeal ==
  /\ MainIdle /\ pc = "in_ecall"
  /\ stdin = <<>>
  /\ tokenFile = File(FALSE, FALSE, TRUE, <<>>) /\ tokenFile0 = tokenFile
  /\ sealFile \in Files(MaxSeal)
  /\ sealBuf \in [1..MaxSeal -> Byte]
  /\ sealHist = <<>> /\ ret_str = <<>>
  /\ WrapIdle

NextSeal ==
  \/ \E n \in 0..MaxSeal : untrusted_load_enclave_data(n)
  \/ \E n \in 0..MaxSeal : untrusted_save_enclave_data(n)

SpecSeal == InitSeal /\ [][NextSeal]_vars

(* ======================================================================= *)
(* OCALL handler: console input                                            *)
(* ======================================================================= *)
\* untrusted_get_user_input(ret_str, n): fgets_nonewline(ret_str, n, stdin).
\* old is what the caller's n-byte buffer held.
untrusted_get_user_input(n) ==
  /\ pc = "in_ecall"
  /\ \E old \in {g \in Garbage : Len(g) < n}, outcome \in OutOfBounds :
       LET f == FgetsNonewline(old, n, stdin, outcome)
       IN /\ ret_str' = f.str
          /\ stdin' = f.rest
          /\ fg' = f.r
          /\ AfterRead(f.r, "in_ecall")
  /\ UNCHANGED <<enclave, global_eid, status, statusSet, pkSet, sigSet,
                 client_data_json, data_to_sign, hexRead, nbytes_to_sign,
                 bytes_to_sign, ecallLog, staleRead, destroyCount, exitCode>>
  /\ UNCHANGED <<tokVars, sealFile, sealBuf, sealHist, wrapVars>>

InitFgets ==
  /\ MainIdle /\ pc = "in_ecall"
  /\ stdin \in SeqUpTo(Char, MaxStdin + 1)
  /\ tokenFile = File(FALSE, FALSE, TRUE, <<>>) /\ tokenFile0 = tokenFile
  /\ SealIdle /\ WrapIdle

NextFgets == \E n \in 1..MaxN : untrusted_get_user_input(n)

SpecFgets == InitFgets /\ [][NextFgets]_vars

(* ======================================================================= *)
(* The ECALL wrappers called on their own                                  *)
(* ======================================================================= *)
WrapCall(name, index, s, retvalPtr, ms_retval) ==
  LET w == ECallWrapper(s, retvalPtr, ms_retval, retvalSlot)
  IN /\ retvalSlot' = w.retval
     /\ wrapCall' = <<[name |-> name, index |-> index, s |-> s,
                       retvalPtr |-> retvalPtr, ms_retval |-> ms_retval,
                       old |-> retvalSlot, ret |-> w.ret, wrote |-> w.wrote]>>
     /\ UNCHANGED <<mainVars, tokVars, fg, sealVars>>

\* sgx_ecall(eid, 0, &ocall_table_Enclave, &ms)
get_public_key(s, retvalPtr, ms_retval) ==
  WrapCall("get_public_key", 0, s, retvalPtr, ms_retval)

\* sgx_ecall(eid, 1, &ocall_table_Enclave, &ms)
sign_data(s, retvalPtr, ms_retval) ==
  WrapCall("sign_data", 1, s, retvalPtr, ms_retval)

InitWrap ==
  /\ MainIdle /\ pc = "start"
  /\ stdin = <<>>
  /\ tokenFile = File(FALSE, FALSE, TRUE, <<>>) /\ tokenFile0 = tokenFile
  /\ SealIdle
  /\ retvalSlot \in SgxStatus /\ wrapCall = <<>>

NextWrap ==
  \/ \E s \in SgxStatus, p \in BOOLEAN, rv \in SgxStatus : get_public_key(s, p, rv)
  \/ \E s \in SgxStatus, p \in BOOLEAN, rv \in SgxStatus : sign_data(s, p, rv)

SpecWrap == InitWrap /\ [][NextWrap]_vars

(* ======================================================================= *)
(* Properties                                                              *)
(* ======================================================================= *)
ECallFailed(i) == ecallLog[i].status # SGX_SUCCESS
AnyECallFailed == \E i \in 1..Len(ecallLog) : ECallFailed(i)
SignIssued == \E i \in 1..Len(ecallLog) : ecallLog[i].index = 1

\* C1: once sgx_ecall has returned a non-success status, main goes no further
\* than the check that follows the call, leaves with -1, and never reads
\* status, pk or signature.
C1_FailedECallIsFatal ==
  AnyECallFailed =>
    /\ ~staleRead
    /\ pc \in {"check_pk", "check_sign", "exit"}
    /\ (pc = "exit" => exitCode = -1)

\* C2: when main has returned after a successful enclave creation, the
\* enclave was destroyed exactly once; nothing but the exit follows Destroyed.
C2_DestroyedOnceOnEveryExit ==
  /\ (pc = "exit" /\ createRet = SGX_SUCCESS) => destroyCount = 1
  /\ enclave = "Destroyed" => pc = "exit"

KeyReported(v) == Len(ecallLog) >= 1 /\ ecallLog[1].retval \in v
SignReported(v) == Len(ecallLog) >= 2 /\ ecallLog[2].retval \in v
NonZero == SgxStatus \ {SGX_SUCCESS}

\* C3: main returns 0 only if initialization succeeded, key retrieval
\* reported status 0, the hex input decoded to at least one byte and signing
\* reported status 0; in each of the four failure cases it returns -1.
C3_ExitCodes ==
  pc = "exit" =>
    /\ exitCode = 0 =>
         /\ createRet = SGX_SUCCESS /\ initRet = 0
         /\ KeyReported({SGX_SUCCESS})
         /\ nbytes_to_sign > 0
         /\ SignReported({SGX_SUCCESS})
    /\ ( \/ createRet # SGX_SUCCESS
         \/ KeyReported(NonZero)
         \/ (hexRead # "no" /\ hex2buf(data_to_sign).size = 0)
         \/ SignReported(NonZero) ) => exitCode = -1

\* the hex line delivered by stdin is empty (also: end of file) or odd
HexLineBad ==
  \/ hexRead = "eof"
  \/ hexRead = "line" /\ (Len(data_to_sign) = 0 \/ Len(data_to_sign) % 2 = 1)

\* C4: after an empty or odd-length hex line, main decodes zero bytes, returns
\* -1 and never issues the signing ECALL; a signing ECALL is issued only after
\* both lines were read and at least one byte was decoded.
C4_BadHexNeverSigned ==
  /\ HexLineBad =>
       /\ ~SignIssued
       /\ pc \in {"decode", "exit"}
       /\ (pc = "exit" => exitCode = -1 /\ nbytes_to_sign = 0)
  /\ SignIssued => hexRead # "no" /\ nbytes_to_sign > 0

\* C5: every sgx_ecall was issued with the handle of a Loaded enclave; after a
\* failed creation no ECALL is issued and the handle stays unset; nothing is
\* issued once the enclave is Destroyed.
C5_ECallsOnlyWhileLoaded ==
  /\ \A i \in 1..Len(ecallLog) :
       ecallLog[i].enclave = "Loaded" /\ ecallLog[i].eid # 0
  /\ ecallLog # <<>> => createRet = SGX_SUCCESS /\ initRet = 0
  /\ createRet \notin {"none", SGX_SUCCESS} =>
       ecallLog = <<>> /\ global_eid = 0 /\ enclave = "Unloaded"
  /\ enclave = "Destroyed" => pc = "exit"

C5_Witness ==
  /\ pc = "exit" /\ exitCode = 0 /\ enclave = "Destroyed"
  /\ Len(ecallLog) = 2 /\ ecallLog[1].index = 0 /\ ecallLog[2].index = 1

InitReturned == pc # "start" /\ createRet # "none"
FullToken(f) == CanOpenRead(f) /\ Len(f.bytes) >= TokenSize
NeverPartial ==
  /\ FullToken(tokenFile0) => createToken = SubSeq(tokenFile0.bytes, 1, TokenSize)
  /\ ~FullToken(tokenFile0) => createToken = Zeros(TokenSize)
InvalidLogged == "Warning: Invalid launch token read" \in log

\* C6 as stated: the token handed to sgx_create_enclave is the file's token
\* or all zero, and every existing file shorter than a token, the empty one
\* included, gets the warning.
C6_TokenNeverPartial_Stated ==
  InitReturned =>
    /\ NeverPartial
    /\ (tokenFile0.exists /\ Len(tokenFile0.bytes) < TokenSize) =>
         (InvalidLogged \/ "Warning: Failed to create/open the launch token file" \in log)

\* C6 amended: the token handed to sgx_create_enclave is the file's token or
\* all zero, and a file that is opened for reading and holds at least one
\* byte but fewer than a token gets the warning.
C6_TokenNeverPartial ==
  InitReturned =>
    /\ NeverPartial
    /\ (CanOpenRead(tokenFile0) /\ Len(tokenFile0.bytes) > 0
          /\ Len(tokenFile0.bytes) < TokenSize) => InvalidLogged

C6_Witness ==
  /\ InitReturned
  /\ CanOpenRead(tokenFile0)
  /\ Len(tokenFile0.bytes) > 0 /\ Len(tokenFile0.bytes) < TokenSize
  /\ tokenFile0.bytes[1] # 0
  /\ createToken = Zeros(TokenSize) /\ InvalidLogged

CreatedAndUpdated == createRet = SGX_SUCCESS /\ createUpdated
WriteFailed == writeNum >= 0 /\ writeNum < TokenSize

\* C7 as stated: the launch-token file differs from what it was (existence or
\* bytes) only after a successful creation that reported an update; a failed
\* write leaves the result 0.
C7_TokenFileFrame_Stated ==
  InitReturned =>
    /\ tokenFile # tokenFile0 => CreatedAndUpdated
    /\ WriteFailed => initRet = 0

\* C7 amended: a launch-token file that can be opened for reading differs
\* from what it was only after a successful creation that reported an update;
\* a file that cannot be opened for reading is created or truncated to empty
\* whatever creation does; a failed write leaves the result 0.
C7_TokenFileFrame ==
  InitReturned =>
    /\ (CanOpenRead(tokenFile0) /\ tokenFile # tokenFile0) => CreatedAndUpdated
    /\ (~CanOpenRead(tokenFile0) /\ tokenFile # tokenFile0 /\ ~CreatedAndUpdated) =>
         (tokenFile.exists /\ tokenFile.bytes = <<>>)
    /\ WriteFailed => initRet = 0

C7_Witness ==
  /\ InitReturned
  /\ CanOpenRead(tokenFile0) /\ tokenFile # tokenFile0
  /\ CreatedAndUpdated /\ WriteFailed /\ initRet = 0

\* a load that returned 0 directly followed by a save of the same size
LoadThenSave ==
  /\ Len(sealHist) = 2
  /\ sealHist[1].op = "load" /\ sealHist[1].ret = 0
  /\ sealHist[2].op = "save" /\ sealHist[2].n = sealHist[1].n

C9_TrimIndexInside ==
  fg.called => U32Below(fg.idx, fg.n) /\ fg.outcome = "ok"

\* C10: a wrapper returns the status of sgx_ecall as it is, uses index 0 for
\* get_public_key and 1 for sign_data, and writes the block's return value
\* through retval exactly when that status is success and retval is not null.
C10_WrapperVerbatim ==
  Len(wrapCall) = 1 =>
    LET c == wrapCall[1]
        w == c.s = SGX_SUCCESS /\ c.retvalPtr
    IN /\ c.ret = c.s
       /\ c.index = (IF c.name = "get_public_key" THEN 0 ELSE 1)
       /\ c.wrote <=> w
       /\ w => retvalSlot = c.ms_retval
       /\ ~w => retvalSlot = c.old

C10_Witness ==
  /\ Len(wrapCall) = 1
  /\ wrapCall[1].s # SGX_SUCCESS /\ wrapCall[1].retvalPtr
  /\ wrapCall[1].ms_retval # wrapCall[1].old
  /\ retvalSlot = wrapCall[1].old /\ wrapCall[1].ret = wrapCall[1].s

====
